---- MODULE Spec2Model ----
(***************************************************************************)
(* A model of gemini_torch/utils.py: the ImgToTransformer module, its      *)
(* constructor and its forward pass.  Tensors are modelled by their shape  *)
(* (a sequence of positive integers); what forward computes is modelled by *)
(* the shape algebra of each statement, by the exception each statement    *)
(* raises, and by the learned values each statement consumes.              *)
(***************************************************************************)
EXTENDS Integers, Sequences, FiniteSets

VARIABLES model, result

vars == <<model, result>>

(* ---------------------------------------------------------------------- *)
(* Bounds of the checked instances.                                        *)
(* ---------------------------------------------------------------------- *)
MaxPatches == 4
MaxDim == 2
MaxChannels == 1
MaxSide == 2
MaxTracked == 2

(* ---------------------------------------------------------------------- *)
(* Arithmetic helpers.                                                     *)
(* ---------------------------------------------------------------------- *)
RECURSIVE Prod(_)
\* numel of a shape
Prod(s) == IF s = <<>> THEN 1 ELSE Head(s) * Prod(Tail(s))

RECURSIVE SumSeq(_)
SumSeq(s) == IF s = <<>> THEN 0 ELSE Head(s) + SumSeq(Tail(s))

\* int(patches ** 0.5): the floor of the square root
ISqrt(n) == CHOOSE k \in 0..n : k * k <= n /\ (k + 1) * (k + 1) > n

Last(s) == s[Len(s)]

Front(s) == SubSeq(s, 1, Len(s) - 1)

(* ---------------------------------------------------------------------- *)
(* Layers allocated by the constructor.                                    *)
(* ---------------------------------------------------------------------- *)
\* nn.Linear(in, out) without the bias vector
LinearNoBias(inf, outf) ==
    [in_features |-> inf, out_features |-> outf,
     params |-> << <<outf, inf>> >>, value |-> 0]

\* nn.Linear(in, out): a weight of shape (out, in) and a bias of shape (out);
\* value stands for the content of the learned tensors
Linear(inf, outf) ==
    [in_features |-> inf, out_features |-> outf,
     params |-> << <<outf, inf>>, <<outf>> >>, value |-> 0]

\* nn.BatchNorm1d(n): affine weight and bias of shape (n), and the buffers
\* running_mean / running_var (their content abstracted to the number of
\* momentum updates applied) and num_batches_tracked
BatchNorm1d(n) ==
    [num_features |-> n,
     params |-> << <<n>>, <<n>> >>, value |-> 0,
     running_updates |-> 0,
     num_batches_tracked |-> 0]

\* nn.Parameter(torch.zeros(shape)): the value is the abstract content
Parameter(shape) == [shape |-> shape, value |-> 0]

\* ImgToTransformer.__init__
ImgToTransformer(patches, patch_size, transformer_dim, img_channels, seq_len, reduced_dim) ==
    [training |-> TRUE,
     patches |-> patches,
     patch_size |-> patch_size,
     transformer_dim |-> transformer_dim,
     img_channels |-> img_channels,
     seq_len |-> seq_len,
     reduced_dim |-> reduced_dim,
     num_patches_side |-> ISqrt(patches),
     patch_embedding |->
         Linear(patch_size * patch_size * img_channels, transformer_dim),
     dim_reduction |-> Linear(transformer_dim, reduced_dim),
     norm |-> BatchNorm1d(patches),
     positional_encoding |-> Parameter(<<1, patches, reduced_dim>>),
     token_mixer |-> Linear(patches * reduced_dim, patches * reduced_dim),
     seq_expansion |-> Linear(patches * reduced_dim, seq_len * reduced_dim)]

\* the nn.Linear attributes of a module, in allocation order
LinearLayers(self) ==
    <<self.patch_embedding, self.dim_reduction, self.token_mixer,
      self.seq_expansion>>

\* nn.Module.parameters(): the shape of every learnable tensor registered
\* by the constructor
Parameters(self) ==
    self.patch_embedding.params \o self.dim_reduction.params \o
    self.norm.params \o <<self.positional_encoding.shape>> \o
    self.token_mixer.params \o self.seq_expansion.params

\* sum(p.numel() for p in module.parameters())
NumParameters(self) ==
    SumSeq([i \in 1..Len(Parameters(self)) |-> Prod(Parameters(self)[i])])

(* ---------------------------------------------------------------------- *)
(* Tensor primitives, on shapes.  A call yields [ok, err, shape].          *)
(* ---------------------------------------------------------------------- *)
Good(shape) == [ok |-> TRUE, err |-> "", shape |-> shape]

Bad(err) == [ok |-> FALSE, err |-> err, shape |-> <<>>]

\* Tensor.unfold(dimension, size, step) called with the positional
\* arguments args; all three are required
TensorUnfold(shape, args) ==
    IF Len(args) # 3 THEN Bad("TypeError")
    ELSE LET d == args[1] + 1
             size == args[2]
             step == args[3]
         IN IF d > Len(shape) THEN Bad("IndexError")
            ELSE IF step <= 0 \/ size > shape[d] THEN Bad("RuntimeError")
            ELSE Good([i \in 1..(Len(shape) + 1) |->
                        IF i = d THEN ((shape[d] - size) \div step) + 1
                        ELSE IF i = Len(shape) + 1 THEN size
                        ELSE shape[i]])

\* Tensor.view(*target), at most one entry of target being -1
TensorView(shape, target) ==
    LET known == Prod([i \in 1..Len(target) |->
                         IF target[i] = -1 THEN 1 ELSE target[i]])
        infer == \E i \in 1..Len(target) : target[i] = -1
    IN IF infer
       THEN IF known = 0 \/ Prod(shape) % known # 0 THEN Bad("RuntimeError")
            ELSE Good([i \in 1..Len(target) |->
                        IF target[i] = -1 THEN Prod(shape) \div known
                        ELSE target[i]])
       ELSE IF Prod(shape) # known THEN Bad("RuntimeError")
            ELSE Good(target)

\* Tensor.permute(*dims), dims counted from 0
TensorPermute(shape, dims) ==
    IF Len(dims) # Len(shape) THEN Bad("RuntimeError")
    ELSE Good([i \in 1..Len(dims) |-> shape[dims[i] + 1]])

\* nn.Linear.forward: the last dimension must equal in_features
LinearForward(layer, shape) ==
    IF shape = <<>> THEN Bad("RuntimeError")
    ELSE IF Last(shape) # layer.in_features THEN Bad("RuntimeError")
    ELSE Good(Front(shape) \o <<layer.out_features>>)

\* getattr(self, name): nn.Module raises AttributeError for a name that
\* was never assigned
GetAttr(self, name) ==
    IF name \in DOMAIN self THEN [ok |-> TRUE, err |-> "", value |-> self[name]]
    ELSE [ok |-> FALSE, err |-> "AttributeError", value |-> 0]

(* ---------------------------------------------------------------------- *)
(* The frame of one forward call and the effect of each statement.         *)
(* ---------------------------------------------------------------------- *)
Frame(self, x) ==
    [status |-> "running", error |-> "", line |-> 0, x |-> x,
     batch |-> 0, channels |-> 0, height |-> 0, width |-> 0,
     steps |-> <<>>, self |-> self]

\* the statement at line ln raises err
Raise(fr, ln, err) ==
    [fr EXCEPT !.status = "raised", !.error = err, !.line = ln]

\* the statement at line ln completes, leaving x with the given shape;
\* operand holds the learned values the statement consumed
Done(fr, ln, shape, operand) ==
    [fr EXCEPT !.x = shape,
               !.steps = Append(@, [line |-> ln, shape |-> shape,
                                    operand |-> operand])]

\* a statement that is one primitive call r
Apply(fr, ln, r, operand) ==
    IF r.ok THEN Done(fr, ln, r.shape, operand) ELSE Raise(fr, ln, r.err)

\* batch, channels, height, width = x.shape
Stmt86FourNames(fr) ==
    IF Len(fr.x) # 4 THEN Raise(fr, 86, "ValueError")
    ELSE [Done(fr, 86, fr.x, <<>>) EXCEPT !.batch = fr.x[1],
              !.channels = fr.x[2], !.height = fr.x[3], !.width = fr.x[4]]

\* batch, channels, height, width, height = x.shape
Stmt86(fr) ==
    IF Len(fr.x) # 5 THEN Raise(fr, 86, "ValueError")
    ELSE [Done(fr, 86, fr.x, <<>>) EXCEPT !.batch = fr.x[1],
              !.channels = fr.x[2], !.width = fr.x[4], !.height = fr.x[5]]

\* assert height % side == 0 and width % side == 0
Stmt89(fr) ==
    LET side == fr.self.num_patches_side
    IN IF side = 0 THEN Raise(fr, 89, "ZeroDivisionError")
       ELSE IF fr.height % side = 0 /\ fr.width % side = 0
            THEN Done(fr, 89, fr.x, <<>>)
            ELSE Raise(fr, 89, "AssertionError")

\* x = x.unfold(*first).unfold(3, patch_size, patch_size)
Stmt94(fr, first) ==
    LET u == TensorUnfold(fr.x, first)
    IN IF ~u.ok THEN Raise(fr, 94, u.err)
       ELSE Apply(fr, 94,
                  TensorUnfold(u.shape, <<3, fr.self.patch_size,
                                          fr.self.patch_size>>), <<>>)

\* x = x.contiguous().view(batch, channels, self.<attr>, -1)
Stmt98(fr, attr) ==
    LET n == GetAttr(fr.self, attr)
    IN IF ~n.ok THEN Raise(fr, 98, n.err)
       ELSE Apply(fr, 98,
                  TensorView(fr.x, <<fr.batch, fr.channels, n.value, -1>>),
                  <<>>)

\* x = x.permute(0, 2, 1, 3).contiguous().view(batch, self.<attr>, -1)
Stmt99(fr, attr) ==
    LET p == TensorPermute(fr.x, <<0, 2, 1, 3>>)
        n == GetAttr(fr.self, attr)
    IN IF ~p.ok THEN Raise(fr, 99, p.err)
       ELSE IF ~n.ok THEN Raise(fr, 99, n.err)
       ELSE Apply(fr, 99, TensorView(p.shape, <<fr.batch, n.value, -1>>),
                  <<>>)

\* x = self.patch_embedding(x)
Stmt102(fr) ==
    Apply(fr, 102, LinearForward(fr.self.patch_embedding, fr.x),
          <<fr.self.patch_embedding.value>>)

\* x = self.dim_reduction(x)
Stmt105(fr) ==
    Apply(fr, 105, LinearForward(fr.self.dim_reduction, fr.x),
          <<fr.self.dim_reduction.value>>)

\* x = self.norm(x): BatchNorm1d takes a rank-2 or rank-3 input; in
\* training mode it counts the batch before it validates the batch size and
\* the channel count, and it updates the running statistics on success
Stmt108(fr) ==
    LET n == fr.self.norm
        counted == IF fr.self.training
                   THEN [fr EXCEPT !.self.norm.num_batches_tracked = @ + 1]
                   ELSE fr
    IN IF Len(fr.x) \notin {2, 3} THEN Raise(fr, 108, "ValueError")
       ELSE IF fr.self.training /\ fr.x[1] * Prod(SubSeq(fr.x, 3, Len(fr.x))) = 1
            THEN Raise(counted, 108, "ValueError")
       ELSE IF fr.x[2] # n.num_features THEN Raise(counted, 108, "RuntimeError")
       ELSE IF fr.self.training
            THEN Done([counted EXCEPT !.self.norm.running_updates = @ + 1],
                      108, fr.x, <<n.value>>)
            ELSE Done(fr, 108, fr.x, <<n.value, n.running_updates>>)

\* x = self.activate(x)
Stmt109(fr) == Done(fr, 109, fr.x, <<>>)

\* x = x.view(batch, -1)
Stmt112(fr) == Apply(fr, 112, TensorView(fr.x, <<fr.batch, -1>>), <<>>)

\* x = self.token_mixer(x)
Stmt113(fr) ==
    Apply(fr, 113, LinearForward(fr.self.token_mixer, fr.x),
          <<fr.self.token_mixer.value>>)

\* x = x.view(batch, self.<attr>, -1)
Stmt114(fr, attr) ==
    LET n == GetAttr(fr.self, attr)
    IN IF ~n.ok THEN Raise(fr, 114, n.err)
       ELSE Apply(fr, 114, TensorView(fr.x, <<fr.batch, n.value, -1>>), <<>>)

\* x = self.seq_expansion(x)
Stmt117(fr) ==
    Apply(fr, 117, LinearForward(fr.self.seq_expansion, fr.x),
          <<fr.self.seq_expansion.value>>)

\* x = x.view(batch, self.seq_len, -1)
Stmt118(fr) ==
    Apply(fr, 118, TensorView(fr.x, <<fr.batch, fr.self.seq_len, -1>>), <<>>)

\* return x
Stmt120(fr) == [fr EXCEPT !.status = "returned", !.line = 120]

\* the statements of forward, by source line, in program order
Body == <<86, 89, 94, 98, 99, 102, 105, 108, 109, 112, 113, 114, 117, 118, 120>>

\* the statements after patch extraction, which the variants below share
Tail102(ln, fr) ==
    CASE ln = 102 -> Stmt102(fr)
      [] ln = 105 -> Stmt105(fr)
      [] ln = 108 -> Stmt108(fr)
      [] ln = 109 -> Stmt109(fr)
      [] ln = 112 -> Stmt112(fr)
      [] ln = 113 -> Stmt113(fr)
      [] ln = 117 -> Stmt117(fr)
      [] ln = 118 -> Stmt118(fr)
      [] ln = 120 -> Stmt120(fr)

\* forward with a four-name destructuring
StmtFourNames(ln, fr) ==
    CASE ln = 86 -> Stmt86FourNames(fr)
      [] ln = 89 -> Stmt89(fr)
      [] ln = 94 -> Stmt94(fr, <<2, fr.self.patch_size>>)
      [] ln = 98 -> Stmt98(fr, "num_patches")
      [] ln = 99 -> Stmt99(fr, "num_patches")
      [] ln = 114 -> Stmt114(fr, "num_patches")
      [] OTHER -> Tail102(ln, fr)

\* forward with a four-name destructuring, a step passed to the first
\* unfold and self.patches read where the code reads self.num_patches
StmtPatchesAttr(ln, fr) ==
    CASE ln = 86 -> Stmt86FourNames(fr)
      [] ln = 89 -> Stmt89(fr)
      [] ln = 94 -> Stmt94(fr, <<2, fr.self.patch_size, fr.self.patch_size>>)
      [] ln = 98 -> Stmt98(fr, "patches")
      [] ln = 99 -> Stmt99(fr, "patches")
      [] ln = 114 -> Stmt114(fr, "patches")
      [] OTHER -> Tail102(ln, fr)

\* as StmtPatchesAttr, and the positional encoding added to x where the
\* comment of line 111 announces it
StmtAddsEncoding(ln, fr) ==
    IF ln = 112
    THEN Stmt112(Done(fr, 111, fr.x, <<fr.self.positional_encoding.value>>))
    ELSE StmtPatchesAttr(ln, fr)

\* the statement of forward at source line ln
Stmt(ln, fr) ==
    CASE ln = 86 -> Stmt86(fr)
      [] ln = 89 -> Stmt89(fr)
      [] ln = 94 -> Stmt94(fr, <<2, fr.self.patch_size>>)
      [] ln = 98 -> Stmt98(fr, "num_patches")
      [] ln = 99 -> Stmt99(fr, "num_patches")
      [] ln = 114 -> Stmt114(fr, "num_patches")
      [] OTHER -> Tail102(ln, fr)

RECURSIVE Exec(_, _)
\* run the statements from the i-th on until one raises or returns
Exec(i, fr) ==
    IF fr.status # "running" \/ i > Len(Body) THEN fr
    ELSE Exec(i + 1, Stmt(Body[i], fr))

\* ImgToTransformer.forward
forward(self, x) == Exec(1, Frame(self, x))

(* ---------------------------------------------------------------------- *)
(* Configurations and inputs.                                              *)
(* ---------------------------------------------------------------------- *)
\* the widths of the embedding before and after the reduction
Widths == {<<td, rd>> : td \in 1..MaxDim, rd \in 1..MaxDim}

PatchSizes == {1, 2}

SmallModules ==
    {ImgToTransformer(p, ps, w[1], ic, sl, w[2]) :
        p \in 1..MaxPatches, ps \in PatchSizes,
        w \in {v \in Widths : v[1] \in {v[2], MaxDim}},
        ic \in 1..MaxChannels, sl \in 1..MaxDim}

\* the module of the class docstring's example
DocModule == ImgToTransformer(16, 16, 512, 3, 128, 128)

\* the module built by the example at the end of the file
ExampleModule == ImgToTransformer(16, 16, 512, 3, 50000, 256)

Batches == {1, 2}

\* images (batch, channels, height, width), square or one pixel wide
Rank4 ==
    {s \in {<<b, c, h, w>> : b \in Batches, c \in 1..MaxChannels,
                             h \in 1..MaxSide, w \in 1..MaxSide} :
        s[4] \in {1, s[3]}}

\* tensors of rank 5, which the destructuring of line 86 accepts
Rank5 == {<<1, 1, 1, w, h>> : w \in 1..MaxSide, h \in 1..MaxSide}

\* tensors of rank 3
Rank3 == {<<1, h, h>> : h \in 1..MaxSide}

\* torch.randn(1, 3, 256, 256), torch.randn(1, 3, 64, 64) and an image
\* whose side 16's root does not divide
ExampleInputs == {<<1, 3, 256, 256>>, <<1, 3, 64, 64>>, <<1, 3, 65, 65>>}

Inputs == Rank4 \cup Rank5 \cup Rank3 \cup ExampleInputs

NoResult(m) ==
    [called |-> FALSE, x |-> <<>>, before |-> m, after |-> m,
     status |-> "none", error |-> "", line |-> 0, shape |-> <<>>,
     steps |-> <<>>]

(* ---------------------------------------------------------------------- *)
(* The state machine.                                                      *)
(* ---------------------------------------------------------------------- *)
Init ==
    /\ model \in SmallModules \cup {DocModule, ExampleModule}
    /\ result = NoResult(model)

InitSmall ==
    /\ model \in SmallModules
    /\ result = NoResult(model)

\* model(x): one whole forward call
Call ==
    /\ model.norm.num_batches_tracked < MaxTracked
    /\ \E x \in Inputs :
         LET fr == forward(model, x)
         IN /\ model' = fr.self
            /\ result' = [called |-> TRUE, x |-> x, before |-> model,
                          after |-> fr.self, status |-> fr.status,
                          error |-> fr.error, line |-> fr.line,
                          shape |-> fr.x, steps |-> fr.steps]

\* model.train()
Train ==
    /\ model' = [model EXCEPT !.training = TRUE]
    /\ UNCHANGED result

\* model.eval()
Eval ==
    /\ model' = [model EXCEPT !.training = FALSE]
    /\ UNCHANGED result

Next == Call \/ Train \/ Eval

Spec == Init /\ [][Next]_vars

SpecSmall == InitSmall /\ [][Next]_vars

(* ---------------------------------------------------------------------- *)
(* Vocabulary of the properties.                                           *)
(* ---------------------------------------------------------------------- *)
\* the six constructor arguments of a module
ConfigOf(m) ==
    <<m.patches, m.patch_size, m.transformer_dim, m.img_channels,
      m.seq_len, m.reduced_dim>>

PerfectSquare(n) == ISqrt(n) * ISqrt(n) = n

\* x is an image (batch, channels, height, width)
IsImage(x) == Len(x) = 4

\* the height and the width of image x are multiples of sqrt(patches)
Divisible(m, x) ==
    /\ x[3] % m.num_patches_side = 0
    /\ x[4] % m.num_patches_side = 0

\* the source lines of the statements that apply a linear projection
LinearLines == {102, 105, 113, 117}

\* the lines of the statements the last call completed
LinesDone == {result.steps[i].line : i \in 1..Len(result.steps)}

\* the last call completed the statement of line ln leaving x of shape sh
StepGave(ln, sh) ==
    \E i \in 1..Len(result.steps) :
        result.steps[i].line = ln /\ result.steps[i].shape = sh

\* the last call fed a tensor of last dimension d to the statement of line ln
StepFed(ln, d) ==
    \E i \in 2..Len(result.steps) :
        /\ result.steps[i].line = ln
        /\ Last(result.steps[i - 1].shape) = d

\* what a caller can observe of a finished forward call
Observe(fr) ==
    [status |-> fr.status, error |-> fr.error, line |-> fr.line,
     shape |-> fr.x, steps |-> fr.steps, norm |-> fr.self.norm]

\* values of the positional-encoding tensor an optimizer may have stored
EncodingValues == {0, 1}

WithEncoding(m, v) == [m EXCEPT !.positional_encoding.value = v]

(* ---------------------------------------------------------------------- *)
(* Properties.                                                             *)
(* ---------------------------------------------------------------------- *)
\* C1: for a perfect-square patch count and an image with height = width,
\* both multiples of sqrt(patches), forward returns a tensor of shape
\* (batch, seq_len, reduced_dim).
C1_OutputShape ==
    (/\ result.called
     /\ PerfectSquare(result.before.patches)
     /\ IsImage(result.x)
     /\ result.x[3] = result.x[4]
     /\ Divisible(result.before, result.x))
    => /\ result.status = "returned"
       /\ result.shape = <<result.x[1], result.before.seq_len,
                           result.before.reduced_dim>>

\* C2: an image whose height or width is no multiple of sqrt(patches) makes
\* forward fail with the divisibility assertion, before any linear
\* projection has executed.
C2_AssertionFirst ==
    (/\ result.called
     /\ IsImage(result.x)
     /\ ~Divisible(result.before, result.x))
    => /\ result.status = "raised"
       /\ result.error = "AssertionError"
       /\ LinesDone \cap LinearLines = {}

\* C3: the docstring's module (16, 16, 512, 3, 128, 128) applied to an input
\* of shape (1, 3, 256, 256) returns a tensor of shape (1, 128, 128).
C3_DocExample ==
    (/\ result.called
     /\ ConfigOf(result.before) = ConfigOf(DocModule)
     /\ result.x = <<1, 3, 256, 256>>)
    => /\ result.status = "returned"
       /\ result.shape = <<1, 128, 128>>

\* C4: the example at the end of the file, the module
\* (16, 16, 512, 3, 50000, 256) applied to an input of shape (1, 3, 64, 64),
\* completes and yields a tensor of shape (1, 50000, 256).
C4_ModuleExample ==
    (/\ result.called
     /\ ConfigOf(result.before) = ConfigOf(ExampleModule)
     /\ result.x = <<1, 3, 64, 64>>)
    => /\ result.status = "returned"
       /\ result.shape = <<1, 50000, 256>>

LinearParameters(m) ==
    SumSeq([i \in 1..Len(LinearLayers(m)) |->
              (LinearLayers(m)[i].in_features + 1)
                  * LinearLayers(m)[i].out_features])

C6_FiveLinear ==
    /\ Len(LinearLayers(model)) = 5
    /\ NumParameters(model) =
           LinearParameters(model) + model.patches * model.reduced_dim

\* C6 amended: four linear projections, one positional-encoding tensor and
\* the normalization layer's weight and bias (patches elements each) are
\* all the learnable parameters of the module.
C6_FourLinearAndNorm ==
    /\ Len(LinearLayers(model)) = 4
    /\ NumParameters(model) =
           LinearParameters(model) + model.patches * model.reduced_dim
             + 2 * model.patches

C6_Witness ==
    /\ model.patches = MaxPatches
    /\ model.reduced_dim = MaxDim
    /\ model.seq_len = MaxDim
    /\ NumParameters(model) > LinearParameters(model)

\* C7: for an image that satisfies the divisibility check, the patch
\* extraction yields a tensor of shape
\* (batch, patches, channels * patch_size^2), whose last dimension is the
\* in_features of the patch embedding.
C7_PatchGrid ==
    (/\ result.called
     /\ IsImage(result.x)
     /\ Divisible(result.before, result.x))
    => /\ StepGave(99, <<result.x[1], result.before.patches,
                         result.x[2] * result.before.patch_size
                             * result.before.patch_size>>)
       /\ StepFed(102, result.before.patch_embedding.in_features)

\* C8: after normalization and activation forward flattens x to
\* (batch, patches * reduced_dim), mixes it, reshapes it to
\* (batch, patches, reduced_dim), expands it to (batch, seq_len * reduced_dim)
\* and reshapes it to (batch, seq_len, reduced_dim); each linear layer is fed
\* a last dimension equal to its in_features.
C8_MixAndExpand ==
    (/\ result.called
     /\ IsImage(result.x)
     /\ Divisible(result.before, result.x))
    => LET m == result.before
           b == result.x[1]
       IN /\ StepGave(112, <<b, m.patches * m.reduced_dim>>)
          /\ StepFed(113, m.token_mixer.in_features)
          /\ StepGave(114, <<b, m.patches, m.reduced_dim>>)
          /\ StepFed(117, m.seq_expansion.in_features)
          /\ StepGave(117, <<b, m.seq_len * m.reduced_dim>>)
          /\ StepGave(118, <<b, m.seq_len, m.reduced_dim>>)

====
